---- MODULE Spec2Model ----
(***************************************************************************)
(* The SQLite-backed store of the JEE bot (mcp-bearer-token/db.py): the    *)
(* six tables, the seeding done by init_db, the read operations, the       *)
(* streak-counting record_progress and the reminder store.                 *)
(***************************************************************************)
EXTENDS Integers, Sequences, FiniteSets, TLC

----------------------------------------------------------------------------
(* Bounds of the model. *)

\* record_progress calls made in one behaviour of SpecProgress
MaxAttempts == 3
\* add_reminder calls made in one behaviour of SpecReminders
MaxReminders == 3
\* record_progress and add_reminder calls made in one behaviour of Spec
MaxWrites == 2
\* record_progress calls started in one behaviour of SpecRace
MaxRaceCalls == 3
\* the system date ranges over BaseDate .. BaseDate + MaxDay days
MaxDay == 2
\* get_questions is called with limit in -1 .. MaxLimit
MaxLimit == 2

----------------------------------------------------------------------------
(* Python values. *)

\* Optional values: None, or a value x.
None == <<>>
Some(x) == <<x>>

\* A Python str returned as a list element (get_notes with a topic).
Str(s) == [str |-> s]

\* Python truthiness of an optional str: None and "" are both falsy.
Truthy(topic) == topic # None /\ topic[1] # ""

\* json.dumps turns a value into its JSON text; json.loads parses the text.
json_dumps(v) == [json |-> v]
json_loads(t) == t.json

----------------------------------------------------------------------------
(* datetime.date: the proleptic Gregorian calendar. *)

IsLeap(y) == (y % 4 = 0 /\ y % 100 # 0) \/ y % 400 = 0

DaysInMonth(y, m) ==
    IF m = 2 THEN (IF IsLeap(y) THEN 29 ELSE 28)
    ELSE IF m \in {4, 6, 9, 11} THEN 30 ELSE 31

\* date + date.resolution
NextDay(d) ==
    IF d.day < DaysInMonth(d.year, d.month) THEN [d EXCEPT !.day = @ + 1]
    ELSE IF d.month < 12 THEN [year |-> d.year, month |-> d.month + 1, day |-> 1]
    ELSE [year |-> d.year + 1, month |-> 1, day |-> 1]

\* date - date.resolution (date.resolution is one day)
PrevDay(d) ==
    IF d.day > 1 THEN [d EXCEPT !.day = @ - 1]
    ELSE IF d.month > 1
         THEN [year |-> d.year, month |-> d.month - 1,
               day |-> DaysInMonth(d.year, d.month - 1)]
    ELSE [year |-> d.year - 1, month |-> 12, day |-> 31]

\* date.isoformat(): the text "YYYY-MM-DD", as its three fields
isoformat(d) == <<d.year, d.month, d.day>>

\* date.fromisoformat(): the date a "YYYY-MM-DD" text names
fromisoformat(t) == [year |-> t[1], month |-> t[2], day |-> t[3]]

\* The first system date of the model: the day before a leap day.
BaseDate == [year |-> 2024, month |-> 2, day |-> 28]

RECURSIVE DateAfter(_, _)
DateAfter(d, n) == IF n = 0 THEN d ELSE DateAfter(NextDay(d), n - 1)

\* The dates date.today() returns in the model.
Dates == {DateAfter(BaseDate, n) : n \in 0..MaxDay}

----------------------------------------------------------------------------
(* Inputs. *)

Phones == {"u1", "u2"}
ProgressSubjects == {"Physics", "Chemistry"}
QuerySubjects == {"Physics", "Chemistry", "Biology"}
Topics == {None, Some(""), Some("Kinematics"), Some("Units")}
Limits == (0 - 1)..MaxLimit
QuestionIds == {1, 4}
Messages == {"revise"}
\* The concurrent callers of record_progress, and the phone they call it for.
Callers == {1, 2, 3}
RacePhones == {"u1"}
\* remind_at texts, as the codes of their characters: "10" and "9"
RemindAts == {<<49, 48>>, <<57>>}

----------------------------------------------------------------------------
(* State. *)

VARIABLES
    exam_info,   \* table exam_info: a set of rows (PRIMARY KEY name)
    questions,   \* table questions: rows in rowid order, id = position
    notes,       \* table notes: rows in rowid order
    formulas,    \* table formulas: rows in rowid order
    progress,    \* table progress: a set of rows
    reminders,   \* table reminders: rows in rowid order
    clock,       \* the system date, what date.today() returns
    call,        \* the last operation called, with its arguments
    ret,         \* what that operation returned
    inflight     \* per concurrent caller: its record_progress call, if any

store == <<exam_info, questions, notes, formulas, progress, reminders>>
vars == <<exam_info, questions, notes, formulas, progress, reminders, clock, call, ret,
         inflight>>

----------------------------------------------------------------------------
(* SQL helpers. *)

\* INSERT of rows into a table whose id is INTEGER PRIMARY KEY AUTOINCREMENT:
\* no row is ever deleted, so the next id is the row count plus one.
InsertAll(table, rows) ==
    table \o [i \in 1..Len(rows) |-> [id |-> Len(table) + i] @@ rows[i]]

\* The sequences that list every element of the set S exactly once: the
\* orders in which a SELECT without a deterministic ORDER BY may return S.
Orderings(S) ==
    {q \in [1..Cardinality(S) -> S] : \A i, j \in DOMAIN q : q[i] = q[j] => i = j}

\* SQLite LIMIT n on k rows: a negative n is no limit at all.
LimitCount(k, limit) ==
    IF limit < 0 THEN k ELSE IF limit < k THEN limit ELSE k

\* SQLite BINARY collation on TEXT (memcmp, the shorter text first on a tie).
TextLeq(a, b) ==
    \E k \in 0..Len(a) :
        /\ k <= Len(b)
        /\ \A i \in 1..k : a[i] = b[i]
        /\ \/ k = Len(a)
           \/ k < Len(b) /\ a[k + 1] < b[k + 1]

----------------------------------------------------------------------------
(* init_db: the schema and the sample data. *)

ExamPattern ==
    [duration |-> "3 hours",
     questions |-> "75 (25 per subject)",
     marking |-> "+4 for correct, -1 for incorrect"]

SeedExamRow ==
    [name |-> "JEE", mains_date |-> "2025-01-24", advanced_date |-> "2025-05-25",
     pattern |-> json_dumps(ExamPattern)]

SeedQuestionRows ==
    << [subject |-> "Physics", topic |-> "Units",
        question |-> "What is the SI unit of force?",
        options |-> json_dumps(<<"Newton", "Joule", "Watt", "Pascal">>),
        answer |-> 0,
        explanation |-> "Force is measured in Newtons (N) in the SI system."],
       [subject |-> "Chemistry", topic |-> "Atomic Structure",
        question |-> "What is the charge of a proton?",
        options |-> json_dumps(<<"+1", "0", "-1", "+2">>),
        answer |-> 0,
        explanation |-> "A proton carries a +1 elementary charge."],
       [subject |-> "Mathematics", topic |-> "Calculus",
        question |-> "Derivative of x^2 is?",
        options |-> json_dumps(<<"x", "2x", "x^2", "2">>),
        answer |-> 1,
        explanation |-> "Using power rule d/dx(x^n) = n*x^(n-1), so derivative is 2x."] >>

SeedNoteRows ==
    << [subject |-> "Physics", topic |-> "Kinematics",
        note |-> "Velocity is rate of change of displacement."],
       [subject |-> "Chemistry", topic |-> "Periodic Table",
        note |-> "Elements are arranged in order of increasing atomic number."] >>

SeedFormulaRows ==
    << [subject |-> "Physics", topic |-> "Dynamics", formula |-> "F = m a",
        description |-> "Force equals mass times acceleration."],
       [subject |-> "Mathematics", topic |-> "Geometry", formula |-> "A = pi r^2",
        description |-> "Area of a circle."] >>

\* SELECT COUNT(*) FROM exam_info; INSERT when it is 0.
SeedExamInfo(table) ==
    IF Cardinality(table) = 0 THEN table \cup {SeedExamRow} ELSE table

\* Mutant of SeedQuestions: the sample questions inserted on every run.
SeedQuestions_Unconditional(table) == InsertAll(table, SeedQuestionRows)

\* SELECT COUNT(*) FROM questions; INSERT the sample questions when it is 0.
SeedQuestions(table) ==
    IF Len(table) = 0 THEN InsertAll(table, SeedQuestionRows) ELSE table

\* SELECT COUNT(*) FROM notes; INSERT the sample notes when it is 0.
SeedNotes(table) ==
    IF Len(table) = 0 THEN InsertAll(table, SeedNoteRows) ELSE table

\* SELECT COUNT(*) FROM formulas; INSERT the sample formulas when it is 0.
SeedFormulas(table) ==
    IF Len(table) = 0 THEN InsertAll(table, SeedFormulaRows) ELSE table

\* CREATE TABLE IF NOT EXISTS leaves an existing table as it is; progress and
\* reminders get no sample rows.
init_db ==
    /\ exam_info' = SeedExamInfo(exam_info)
    /\ questions' = SeedQuestions(questions)
    /\ notes' = SeedNotes(notes)
    /\ formulas' = SeedFormulas(formulas)
    /\ UNCHANGED <<progress, reminders, clock, inflight>>
    /\ call' = [op |-> "init_db"]
    /\ ret' = None

\* The store after init_db has run on a new database file.
Init ==
    /\ exam_info = SeedExamInfo({})
    /\ questions = SeedQuestions(<<>>)
    /\ notes = SeedNotes(<<>>)
    /\ formulas = SeedFormulas(<<>>)
    /\ progress = {}
    /\ reminders = <<>>
    /\ clock \in Dates
    /\ call = [op |-> "init_db"]
    /\ ret = None
    /\ inflight = [c \in Callers |-> None]

----------------------------------------------------------------------------
(* The read operations of the content store. *)

get_exam_info ==
    /\ LET rows == {r \in exam_info : r.name = "JEE"} IN
         IF rows = {} THEN ret' = None
         ELSE \E row \in rows :
                ret' = Some([mains_date |-> row.mains_date,
                             advanced_date |-> row.advanced_date,
                             pattern |-> json_loads(row.pattern)])
    /\ call' = [op |-> "get_exam_info"]
    /\ UNCHANGED <<store, clock, inflight>>

\* One row of SELECT id, question, options, as the dict get_questions builds.
QuestionSummary(r) ==
    [id |-> r.id, text |-> r.question, options |-> json_loads(r.options)]

\* SELECT ... FROM questions WHERE subject=? ORDER BY RANDOM() LIMIT ?:
\* the lists get_questions may return.
QuestionsReturned(subject, limit) ==
    LET rows == {i \in 1..Len(questions) : questions[i].subject = subject}
        k == LimitCount(Cardinality(rows), limit)
    IN  {[i \in 1..k |-> QuestionSummary(questions[q[i]])] : q \in Orderings(rows)}

get_questions(subject, limit) ==
    /\ \E r \in QuestionsReturned(subject, limit) : ret' = r
    /\ call' = [op |-> "get_questions", subject |-> subject, limit |-> limit]
    /\ UNCHANGED <<store, clock, inflight>>

get_question(qid) ==
    /\ LET rows == {i \in 1..Len(questions) : questions[i].id = qid} IN
         IF rows = {} THEN ret' = None
         ELSE \E i \in rows :
                ret' = Some([id |-> questions[i].id,
                             subject |-> questions[i].subject,
                             text |-> questions[i].question,
                             options |-> json_loads(questions[i].options),
                             answer |-> questions[i].answer,
                             explanation |-> questions[i].explanation])
    /\ call' = [op |-> "get_question", qid |-> qid]
    /\ UNCHANGED <<store, clock, inflight>>

\* The lists get_notes may return: `if topic:` chooses the query and the shape.
NotesReturned(subject, topic) ==
    IF Truthy(topic)
    THEN LET rows == {i \in 1..Len(notes) :
                        notes[i].subject = subject /\ notes[i].topic = topic[1]}
         IN  {[i \in 1..Len(q) |-> Str(notes[q[i]].note)] : q \in Orderings(rows)}
    ELSE LET rows == {i \in 1..Len(notes) : notes[i].subject = subject}
         IN  {[i \in 1..Len(q) |-> [topic |-> notes[q[i]].topic, note |-> notes[q[i]].note]] :
                q \in Orderings(rows)}

get_notes(subject, topic) ==
    /\ \E r \in NotesReturned(subject, topic) : ret' = r
    /\ call' = [op |-> "get_notes", subject |-> subject, topic |-> topic]
    /\ UNCHANGED <<store, clock, inflight>>

get_formulas(subject) ==
    /\ LET rows == {i \in 1..Len(formulas) : formulas[i].subject = subject} IN
         \E q \in Orderings(rows) :
            ret' = [i \in 1..Len(q) |->
                      [topic |-> formulas[q[i]].topic,
                       formula |-> formulas[q[i]].formula,
                       description |-> formulas[q[i]].description]]
    /\ call' = [op |-> "get_formulas", subject |-> subject]
    /\ UNCHANGED <<store, clock, inflight>>

----------------------------------------------------------------------------
(* The progress tracker. *)

\* SELECT ... FROM progress WHERE phone=? AND subject=?
SelectProgress(phone, subject) ==
    {r \in progress : r.phone = phone /\ r.subject = subject}

\* Mutants of NewStreak: the streak advancing on a same-day call, the
\* consecutive-day branch missing, and a gap resetting the streak to 0.
NewStreak_SameDayAdvances(streak, last_date, today) ==
    IF last_date = today \/ last_date = isoformat(PrevDay(fromisoformat(today)))
    THEN streak + 1
    ELSE 1

NewStreak_NoYesterday(streak, last_date, today) ==
    IF last_date = today THEN streak ELSE 1

NewStreak_KeepsOnGap(streak, last_date, today) ==
    IF last_date = today THEN streak
    ELSE IF last_date = isoformat(PrevDay(fromisoformat(today))) THEN streak + 1
    ELSE streak

NewStreak_ResetsToZero(streak, last_date, today) ==
    IF last_date = today THEN streak
    ELSE IF last_date = isoformat(PrevDay(fromisoformat(today))) THEN streak + 1
    ELSE 0

\* The streak record_progress writes over an existing row.
NewStreak(streak, last_date, today) ==
    IF last_date = today THEN streak
    ELSE IF last_date = isoformat(PrevDay(fromisoformat(today))) THEN streak + 1
    ELSE 1

\* The correct count record_progress writes over an existing row.
NewCorrect(corr, correct) == IF correct THEN corr + 1 ELSE corr

\* Mutant of NewAttempted: the increment of attempted forgotten.
NewAttempted_NotCounted(att) == att

\* The attempted count record_progress writes over an existing row.
NewAttempted(att) == att + 1

\* Mutant of InsertedRow: the first answer counted as correct whatever it was.
InsertedRow_AlwaysCorrect(phone, subject, today, correct) ==
    [phone |-> phone, subject |-> subject, streak |-> 1, last_date |-> today,
     correct |-> 1, attempted |-> 1]

\* The row record_progress inserts when the SELECT finds none.
InsertedRow(phone, subject, today, correct) ==
    [phone |-> phone, subject |-> subject, streak |-> 1, last_date |-> today,
     correct |-> IF correct THEN 1 ELSE 0, attempted |-> 1]

\* UPDATE progress SET streak=?, last_date=?, correct=?, attempted=?
\* WHERE phone=? AND subject=?, with the values computed from the fetched row.
\* An UPDATE that counts inside the statement, from the stored values:
\* SET attempted = attempted + 1, correct = correct + ?.
UpdateProgress_FromStored(row, today, correct) ==
    {IF r.phone = row.phone /\ r.subject = row.subject
     THEN [r EXCEPT !.streak = NewStreak(r.streak, r.last_date, today),
                    !.last_date = today,
                    !.correct = NewCorrect(r.correct, correct),
                    !.attempted = NewAttempted(r.attempted)]
     ELSE r : r \in progress}

UpdateProgress(row, today, correct) ==
    {IF r.phone = row.phone /\ r.subject = row.subject
     THEN [r EXCEPT !.streak = NewStreak(row.streak, row.last_date, today),
                    !.last_date = today,
                    !.correct = NewCorrect(row.correct, correct),
                    !.attempted = NewAttempted(row.attempted)]
     ELSE r : r \in progress}

RECURSIVE SumAttempted(_)
SumAttempted(rows) ==
    IF rows = {} THEN 0
    ELSE LET r == CHOOSE x \in rows : TRUE
         IN  r.attempted + SumAttempted(rows \ {r})

\* The writes made so far: every record_progress call adds one to one row's
\* attempted, every add_reminder call adds one row.
Writes == SumAttempted(progress) + Len(reminders)

record_progress(phone, subject, correct) ==
    /\ LET today == isoformat(clock)
           found == SelectProgress(phone, subject)
       IN  IF found # {}
           THEN \E row \in found :
                  /\ progress' = UpdateProgress(row, today, correct)
                  /\ call' = [op |-> "record_progress", phone |-> phone,
                              subject |-> subject, correct |-> correct,
                              today |-> today, row |-> Some(row)]
           ELSE /\ progress' = progress \cup {InsertedRow(phone, subject, today, correct)}
                /\ call' = [op |-> "record_progress", phone |-> phone,
                            subject |-> subject, correct |-> correct,
                            today |-> today, row |-> None]
    /\ ret' = None
    /\ UNCHANGED <<exam_info, questions, notes, formulas, reminders, clock, inflight>>

\* The lists get_progress_summary may return.
ProgressSummaries(phone) ==
    LET rows == {r \in progress : r.phone = phone}
    IN  {[i \in 1..Len(q) |-> [subject |-> q[i].subject, streak |-> q[i].streak,
                               correct |-> q[i].correct, attempted |-> q[i].attempted]] :
           q \in Orderings(rows)}

get_progress_summary(phone) ==
    /\ \E r \in ProgressSummaries(phone) : ret' = r
    /\ call' = [op |-> "get_progress_summary", phone |-> phone]
    /\ UNCHANGED <<store, clock, inflight>>

\* The system date changes between calls: date.today() follows the machine's
\* clock, which moves on and can be set back.
set_date(d) ==
    /\ d # clock
    /\ clock' = d
    /\ UNCHANGED <<store, call, ret, inflight>>

----------------------------------------------------------------------------
(* record_progress under concurrent callers. Every call opens its own        *)
(* connection and takes no lock of its own; SQLite runs one statement at a   *)
(* time, so a call is two steps: its SELECT, and its UPDATE or INSERT with   *)
(* the commit.                                                               *)

\* The caller is not in the middle of a call.
NotCalling(c) == IF inflight[c] = None THEN TRUE ELSE inflight[c][1].pc # "selected"

\* The caller has made a call and the call has ended.
Finished(c) == IF inflight[c] = None THEN FALSE ELSE inflight[c][1].pc # "selected"

\* today = date.today().isoformat(); SELECT ...; row = cur.fetchone()
record_progress_select(c, phone, subject, correct) ==
    /\ NotCalling(c)
    /\ LET found == SelectProgress(phone, subject) IN
         \E row \in (IF found = {} THEN {None} ELSE {Some(r) : r \in found}) :
            inflight' = [inflight EXCEPT ![c] =
                           Some([pc |-> "selected", phone |-> phone,
                                 subject |-> subject, correct |-> correct,
                                 today |-> isoformat(clock), row |-> row])]
    /\ UNCHANGED <<store, clock, call, ret>>

\* if row: UPDATE from the fetched values; else: INSERT, which raises
\* sqlite3.IntegrityError when the primary key (phone, subject) is taken.
record_progress_write(c) ==
    /\ ~NotCalling(c)
    /\ LET my == inflight[c][1] IN
         IF my.row # None
         THEN /\ progress' = UpdateProgress(my.row[1], my.today, my.correct)
              /\ inflight' = [inflight EXCEPT ![c] = Some([my EXCEPT !.pc = "returned"])]
         ELSE IF SelectProgress(my.phone, my.subject) = {}
         THEN /\ progress' = progress \cup
                    {InsertedRow(my.phone, my.subject, my.today, my.correct)}
              /\ inflight' = [inflight EXCEPT ![c] = Some([my EXCEPT !.pc = "returned"])]
         ELSE /\ progress' = progress
              /\ inflight' = [inflight EXCEPT ![c] = Some([my EXCEPT !.pc = "raised"])]
    /\ UNCHANGED <<exam_info, questions, notes, formulas, reminders, clock, call, ret>>

\* The attempts stored plus the calls that have read and not yet written.
RaceLoad ==
    SumAttempted(progress)
      + Cardinality({c \in Callers : ~NotCalling(c)})

----------------------------------------------------------------------------
(* The reminder store. *)

add_reminder(phone, message, remind_at) ==
    /\ reminders' = InsertAll(reminders, << [phone |-> phone, message |-> message,
                                             remind_at |-> remind_at] >>)
    /\ call' = [op |-> "add_reminder", phone |-> phone, message |-> message,
                remind_at |-> remind_at]
    /\ ret' = None
    /\ UNCHANGED <<exam_info, questions, notes, formulas, progress, clock, inflight>>

\* Mutant of OrderByRemindAt: the ORDER BY clause missing (rowid order).
OrderByRemindAt_RowidOrder(rows) ==
    {q \in Orderings(rows) : \A i, j \in DOMAIN q : i < j => q[i] < q[j]}

\* ORDER BY remind_at: the orders of the selected rows the query may return.
OrderByRemindAt(rows) ==
    {q \in Orderings(rows) :
        \A i, j \in DOMAIN q :
            i < j => TextLeq(reminders[q[i]].remind_at, reminders[q[j]].remind_at)}

\* The lists get_reminders may return.
RemindersReturned(phone) ==
    LET rows == {i \in 1..Len(reminders) : reminders[i].phone = phone}
    IN  {[i \in 1..Len(q) |-> [id |-> reminders[q[i]].id,
                               message |-> reminders[q[i]].message,
                               remind_at |-> reminders[q[i]].remind_at]] :
           q \in OrderByRemindAt(rows)}

get_reminders(phone) ==
    /\ \E r \in RemindersReturned(phone) : ret' = r
    /\ call' = [op |-> "get_reminders", phone |-> phone]
    /\ UNCHANGED <<store, clock, inflight>>

----------------------------------------------------------------------------
(* The tool layer (mcp-bearer-token/mcp_starter.py): the exam tools, which  *)
(* answer from the in-memory EXAM_DATABASE and QUESTION_BANK.               *)

\* What a tool call ends with: a returned value or a raised McpError, held as
\* a one-element sequence like the other values of ret.
ExamReturned(exam) == <<[raised |-> FALSE, exam |-> exam]>>
QuizReturned(list) == <<[raised |-> FALSE, questions |-> list]>>
McpError(code, message) == <<[raised |-> TRUE, code |-> code, message |-> message]>>

\* dict.get(key): the value, or None when the key is absent.
DictGet(d, key) == IF key \in DOMAIN d THEN Some(d[key]) ELSE None

\* str.upper() on the exam names the model calls the tools with.
upper(s) == IF s = "jee" THEN "JEE" ELSE IF s = "neet" THEN "NEET" ELSE s

EXAM_DATABASE ==
    [JEE |->
       [name |-> "Joint Entrance Examination (JEE)",
        description |-> "Engineering entrance exam for IITs, NITs, and other colleges",
        syllabus |->
          [Physics |-> <<"Mechanics", "Electrodynamics", "Thermodynamics", "Optics",
                         "Modern Physics">>,
           Chemistry |-> <<"Physical Chemistry", "Organic Chemistry",
                           "Inorganic Chemistry">>,
           Mathematics |-> <<"Algebra", "Calculus", "Coordinate Geometry",
                             "Trigonometry">>],
        important_dates |->
          [registration |-> "2023-12-15", mains |-> "2024-01-24",
           advanced |-> "2024-05-26"],
        pattern |->
          [duration |-> "3 hours", questions |-> "75 (25 per subject)",
           marking |-> "+4 for correct, -1 for incorrect"],
        resources |->
          [Physics |-> <<"HC Verma", "Irodov", "NCERT">>,
           Chemistry |-> <<"OP Tandon", "MS Chouhan", "NCERT">>,
           Mathematics |-> <<"RD Sharma", "Arihant", "NCERT">>]],
     NEET |->
       [name |-> "National Eligibility cum Entrance Test (NEET)",
        description |-> "Medical entrance exam for MBBS/BDS courses",
        syllabus |->
          [Physics |-> <<"Mechanics", "Optics", "Thermodynamics">>,
           Chemistry |-> <<"Organic", "Inorganic", "Physical">>,
           Biology |-> <<"Botany", "Zoology">>],
        important_dates |-> [registration |-> "2024-03-01", exam |-> "2024-05-05"],
        pattern |->
          [duration |-> "3 hours 20 minutes", questions |-> "180 (45 per subject)",
           marking |-> "+4 for correct, -1 for incorrect"],
        resources |->
          [Physics |-> <<"NCERT", "DC Pandey">>,
           Chemistry |-> <<"NCERT", "Morrison Boyd">>,
           Biology |-> <<"NCERT", "Trueman">>]]]

QUESTION_BANK ==
    [JEE |->
       [Physics |->
          << [text |-> "What is the SI unit of force?",
              options |-> <<"Newton", "Joule", "Watt", "Pascal">>,
              correct_answer |-> 0,
              explanation |-> "Force is measured in Newtons (N) in the SI system.",
              difficulty |-> "easy"] >>,
        Mathematics |->
          << [text |-> "What is the derivative of x^2?",
              options |-> <<"x", "2x", "x^3/3", "1">>,
              correct_answer |-> 1,
              explanation |-> "The derivative of x^n is n*x^(n-1)",
              difficulty |-> "easy"] >>]]

\* The inputs of the tools.
ExamNames == {"JEE", "jee", "NEET", "GATE"}
QuizSubjects == {"Physics", "Mathematics", "Biology", "History"}
Difficulties == {"easy", "medium"}
Counts == {0 - 1, 0, 1, 6}

\* The most placeholder questions generate_quiz returns: min(count, 5).
MaxSampleQuestions == 5

\* The tool get_exam_info(exam_name) of mcp_starter.py.
ExamInfoOutcome(exam_name) ==
    LET exam == DictGet(EXAM_DATABASE, upper(exam_name))
    IN  IF exam = None THEN McpError("INVALID_PARAMS", "Exam not found")
        ELSE ExamReturned(exam[1])

mcp_get_exam_info(exam_name) ==
    /\ ret' = ExamInfoOutcome(exam_name)
    /\ call' = [op |-> "mcp_starter.get_exam_info", exam_name |-> exam_name]
    /\ UNCHANGED <<store, clock, inflight>>

\* The questions of a list that pass a test, in the list's order.
RECURSIVE Filter(_, _)
Filter(list, difficulty) ==
    IF list = <<>> THEN <<>>
    ELSE (IF Head(list).difficulty = difficulty THEN <<Head(list)>> ELSE <<>>)
           \o Filter(Tail(list), difficulty)

\* The Python slice list[:count]: a negative count counts from the end.
SliceTo(list, count) ==
    LET stop == IF count < 0 THEN (IF Len(list) + count < 0 THEN 0 ELSE Len(list) + count)
                ELSE (IF count < Len(list) THEN count ELSE Len(list))
    IN  SubSeq(list, 1, stop)

SampleQuestion(difficulty) ==
    [text |-> "Sample question - this would be from real database",
     options |-> <<"Option 1", "Option 2", "Option 3", "Option 4">>,
     correct_answer |-> 0,
     explanation |-> "This is a sample explanation",
     difficulty |-> difficulty]

\* What generate_quiz(exam_name, subject, difficulty, count) ends with.
QuizOutcome(exam_name, subject, difficulty, count) ==
    LET exam == DictGet(EXAM_DATABASE, upper(exam_name)) IN
    IF exam = None THEN McpError("INVALID_PARAMS", "Exam not found")
    ELSE IF subject \notin DOMAIN exam[1].syllabus
    THEN McpError("INVALID_PARAMS", "Subject not found in exam syllabus")
    ELSE LET bank == DictGet(QUESTION_BANK, upper(exam_name))
             list == IF bank = None THEN <<>>
                     ELSE IF subject \in DOMAIN bank[1] THEN bank[1][subject]
                     ELSE <<>>
             filtered == Filter(list, difficulty)
             n == IF count < MaxSampleQuestions THEN count ELSE MaxSampleQuestions
         IN  IF filtered = <<>>
             THEN QuizReturned([i \in 1..n |-> SampleQuestion(difficulty)])
             ELSE QuizReturned(SliceTo(filtered, count))

generate_quiz(exam_name, subject, difficulty, count) ==
    /\ ret' = QuizOutcome(exam_name, subject, difficulty, count)
    /\ call' = [op |-> "generate_quiz", exam_name |-> exam_name, subject |-> subject,
                difficulty |-> difficulty, count |-> count]
    /\ UNCHANGED <<store, clock, inflight>>

----------------------------------------------------------------------------
(* The specifications: the operations in any order on any inputs. *)

\* The progress tracker alone, under a moving system date.
NextProgress ==
    \/ \E p \in Phones, s \in ProgressSubjects, c \in BOOLEAN :
          SumAttempted(progress) < MaxAttempts /\ record_progress(p, s, c)
    \/ \E p \in Phones : get_progress_summary(p)
    \/ \E d \in Dates : set_date(d)

SpecProgress == Init /\ [][NextProgress]_vars

\* The reminder store alone.
NextReminders ==
    \/ \E p \in Phones, m \in Messages, t \in RemindAts :
          Len(reminders) < MaxReminders /\ add_reminder(p, m, t)
    \/ \E p \in Phones : get_reminders(p)

SpecReminders == Init /\ [][NextReminders]_vars

\* init_db between the operations that write the store, under a moving date.
NextInit ==
    \/ init_db
    \/ \E p \in Phones, s \in ProgressSubjects, c \in BOOLEAN :
          Writes < MaxWrites /\ record_progress(p, s, c)
    \/ \E p \in Phones, m \in Messages, t \in RemindAts :
          Writes < MaxWrites /\ add_reminder(p, m, t)
    \/ \E d \in Dates : set_date(d)

SpecInit == Init /\ [][NextInit]_vars

\* Every operation of the store.
Next ==
    \/ init_db
    \/ get_exam_info
    \/ \E s \in QuerySubjects, l \in Limits : get_questions(s, l)
    \/ \E q \in QuestionIds : get_question(q)
    \/ \E s \in QuerySubjects, t \in Topics : get_notes(s, t)
    \/ \E s \in QuerySubjects : get_formulas(s)
    \/ \E p \in Phones, s \in ProgressSubjects, c \in BOOLEAN :
          Writes < MaxWrites /\ record_progress(p, s, c)
    \/ \E p \in Phones : get_progress_summary(p)
    \/ \E d \in Dates : set_date(d)
    \/ \E p \in Phones, m \in Messages, t \in RemindAts :
          Writes < MaxWrites /\ add_reminder(p, m, t)
    \/ \E p \in Phones : get_reminders(p)

Spec == Init /\ [][Next]_vars

\* The query operations of the store and the exam tools of the tool layer.
NextQueries ==
    \/ get_exam_info
    \/ \E s \in QuerySubjects, l \in Limits : get_questions(s, l)
    \/ \E s \in QuerySubjects, t \in Topics : get_notes(s, t)
    \/ \E s \in QuerySubjects : get_formulas(s)
    \/ \E e \in ExamNames : mcp_get_exam_info(e)
    \/ \E e \in ExamNames, s \in QuizSubjects, d \in Difficulties, n \in Counts :
          generate_quiz(e, s, d, n)

SpecQueries == Init /\ [][NextQueries]_vars

\* record_progress called by concurrent callers within one day.
NextRace ==
    \/ \E c \in Callers, p \in RacePhones, s \in ProgressSubjects, k \in BOOLEAN :
          RaceLoad < MaxRaceCalls /\ record_progress_select(c, p, s, k)
    \/ \E c \in Callers : record_progress_write(c)

SpecRace == Init /\ [][NextRace]_vars

----------------------------------------------------------------------------
(* The progress tracker's contract. *)

\* The number of days from BaseDate to the date an ISO text names.
DayNumber(t) == CHOOSE n \in 0..MaxDay : isoformat(DateAfter(BaseDate, n)) = t

\* The last call was record_progress and its SELECT found a row.
UpdatedExisting == call.op = "record_progress" /\ call.row # None

\* The rows now stored for the pair the last record_progress call named.
CalledRows == SelectProgress(call.phone, call.subject)

\* C1: a record_progress call for a (user, subject) pair that has no record
\* leaves exactly one record for the pair, with streak 1, attempted 1, correct
\* 1 if the answer was correct and 0 otherwise, and last_date today; every
\* get_progress_summary of that user then holds exactly one entry for the
\* subject, with those streak, correct and attempted values.
C1_FirstCallCreatesRecord ==
    (call.op = "record_progress" /\ call.row = None) =>
        LET c == IF call.correct THEN 1 ELSE 0 IN
        /\ CalledRows = {[phone |-> call.phone, subject |-> call.subject,
                          streak |-> 1, last_date |-> call.today,
                          correct |-> c, attempted |-> 1]}
        /\ \A l \in ProgressSummaries(call.phone) :
              /\ Cardinality({i \in DOMAIN l : l[i].subject = call.subject}) = 1
              /\ \E i \in DOMAIN l :
                    l[i] = [subject |-> call.subject, streak |-> 1,
                            correct |-> c, attempted |-> 1]

\* A first call with a wrong answer, made when other records already exist.
C1_Witness ==
    /\ call.op = "record_progress" /\ call.row = None /\ ~call.correct
    /\ Cardinality(progress) >= 2
    /\ \E r \in progress : r.phone = call.phone /\ r.subject # call.subject

\* C2: a record_progress call that finds a record whose last_date is today
\* leaves the streak as it was, adds exactly 1 to attempted, and adds 1 to
\* correct only if the answer was correct.
C2_SameDayKeepsStreak ==
    (UpdatedExisting /\ call.row[1].last_date = call.today) =>
        CalledRows = {[call.row[1] EXCEPT
                         !.attempted = @ + 1,
                         !.correct = IF call.correct THEN @ + 1 ELSE @]}

\* The third call of a day for a record created that day: streak still 1,
\* attempted 3.
C2_Witness ==
    /\ UpdatedExisting /\ call.row[1].last_date = call.today
    /\ call.row[1].attempted = 2
    /\ \E r \in CalledRows : r.streak = 1 /\ r.attempted = 3

\* C3: a record_progress call that finds a record whose last_date is exactly
\* one calendar day before today adds exactly 1 to the streak and sets
\* last_date to today.
C3_NextDayAdvancesStreak ==
    (UpdatedExisting /\ DayNumber(call.row[1].last_date) = DayNumber(call.today) - 1) =>
        /\ CalledRows # {}
        /\ \A r \in CalledRows :
              r.streak = call.row[1].streak + 1 /\ r.last_date = call.today

\* Activity on day D and then on day D+1, across the leap day: streak 2.
C3_Witness ==
    /\ UpdatedExisting
    /\ DayNumber(call.row[1].last_date) = DayNumber(call.today) - 1
    /\ call.today[3] = 1
    /\ \E r \in CalledRows : r.streak = 2

\* C4: a record_progress call that finds a record whose last_date is neither
\* today nor yesterday (two or more days back, or later than today) sets the
\* streak to 1 whatever it was, adds 1 to attempted and sets last_date to today.
C4_GapResetsStreak ==
    (UpdatedExisting
       /\ DayNumber(call.row[1].last_date) \notin
            {DayNumber(call.today), DayNumber(call.today) - 1}) =>
        /\ CalledRows # {}
        /\ \A r \in CalledRows :
              /\ r.streak = 1
              /\ r.attempted = call.row[1].attempted + 1
              /\ r.last_date = call.today

\* A streak of 2 reset to 1 by a call made after the date was set back, so
\* that last_date is later than today.
C4_Witness ==
    /\ UpdatedExisting
    /\ DayNumber(call.row[1].last_date) > DayNumber(call.today)
    /\ call.row[1].streak = 2
    /\ \E r \in CalledRows : r.streak = 1

\* C5: every progress record has 0 <= correct <= attempted.
C5_CorrectWithinAttempted ==
    \A r \in progress : 0 <= r.correct /\ r.correct <= r.attempted

\* A record answered correctly every time next to one never answered correctly.
C5_Witness ==
    /\ \E r \in progress : r.correct = r.attempted /\ r.attempted >= 2
    /\ \E r \in progress : r.correct = 0

\* C6: every progress record has streak >= 1, and no step removes the record
\* of a (user, subject) pair.
C6_StreakPositiveNeverDeleted ==
    /\ [](\A r \in progress : r.streak >= 1)
    /\ [][\A r \in progress :
            \E n \in progress' : n.phone = r.phone /\ n.subject = r.subject]_vars

\* A record updated after a gap while another record exists.
C6_Witness ==
    /\ UpdatedExisting
    /\ DayNumber(call.row[1].last_date) < DayNumber(call.today) - 1
    /\ Cardinality(progress) >= 2

----------------------------------------------------------------------------
(* The reminder store's contract. *)

\* C7: get_reminders(user) returns exactly the reminders stored for that user,
\* each once (none of another user's, none dropped, equal ones kept apart),
\* in ascending order of remind_at.
C7_RemindersCompleteAndSorted ==
    call.op = "get_reminders" =>
        LET mine == {i \in 1..Len(reminders) : reminders[i].phone = call.phone} IN
        /\ Len(ret) = Cardinality(mine)
        /\ \A i \in mine :
              \E k \in DOMAIN ret :
                 ret[k] = [id |-> reminders[i].id, message |-> reminders[i].message,
                           remind_at |-> reminders[i].remind_at]
        /\ \A j, k \in DOMAIN ret :
              j < k => TextLeq(ret[j].remind_at, ret[k].remind_at)

\* Two reminders of one user returned in the reverse of their insertion order,
\* while another user's reminder is stored too.
C7_Witness ==
    /\ call.op = "get_reminders"
    /\ Len(ret) = 2
    /\ ret[1].id > ret[2].id
    /\ \E i \in 1..Len(reminders) : reminders[i].phone # call.phone

----------------------------------------------------------------------------
(* The content store's contract. *)

\* C8: for every subject and every integer limit, get_questions(subject, limit)
\* returns at most limit entries, each a distinct stored question of that
\* subject, each carrying only id, text and options.
C8_AtMostLimitQuestions ==
    call.op = "get_questions" =>
        /\ Len(ret) <= call.limit
        /\ \A i, j \in DOMAIN ret : ret[i].id = ret[j].id => i = j
        /\ \A i \in DOMAIN ret :
              /\ DOMAIN ret[i] = {"id", "text", "options"}
              /\ \E k \in DOMAIN questions :
                    /\ questions[k].subject = call.subject
                    /\ questions[k].id = ret[i].id
                    /\ questions[k].question = ret[i].text
                    /\ questions[k].options = json_dumps(ret[i].options)

\* C9: get_notes returns {topic, note} pairs of every note of the subject when
\* no topic was supplied, and, for every supplied topic, the bare note strings
\* of the notes whose subject and topic both match (none when nothing matches).
C9_ShapeBySuppliedTopic ==
    call.op = "get_notes" =>
        LET all == {i \in 1..Len(notes) : notes[i].subject = call.subject}
            matching == {i \in all : notes[i].topic = call.topic[1]}
        IN  IF call.topic = None
            THEN \E q \in Orderings(all) :
                    ret = [i \in 1..Len(q) |->
                             [topic |-> notes[q[i]].topic, note |-> notes[q[i]].note]]
            ELSE \E q \in Orderings(matching) :
                    ret = [i \in 1..Len(q) |-> Str(notes[q[i]].note)]

\* C10: once init_db has run, a further run of it, whatever writes came in
\* between, changes no table; and no step adds a row to exam_info, questions,
\* notes or formulas unless that table was empty.
C10_InitDbIdempotent ==
    [][/\ init_db => UNCHANGED store
       /\ exam_info' # exam_info => exam_info = {}
       /\ questions' # questions => questions = <<>>
       /\ notes' # notes => notes = <<>>
       /\ formulas' # formulas => formulas = <<>>]_vars

\* init_db run again after progress and a reminder have been recorded.
C10_Witness ==
    /\ call.op = "init_db"
    /\ progress # {}
    /\ reminders # <<>>
    /\ Len(questions) = Len(SeedQuestionRows)

----------------------------------------------------------------------------
(* The error contract of the query operations. *)

\* C11: no core query operation ends in a raised error: exam info for an
\* unknown exam name, and a quiz, notes or formulas for an unknown subject,
\* end in an explicit empty or not-found result.
C11_QueriesNeverRaise ==
    /\ call.op \in {"mcp_starter.get_exam_info", "generate_quiz"} => ~ret[1].raised
    /\ (call.op \in {"get_questions", "get_notes", "get_formulas"}
          /\ call.subject = "Biology") => ret = <<>>
    /\ call.op = "get_exam_info" => ret # None

----------------------------------------------------------------------------
(* Concurrent calls of record_progress for one phone and subject. *)

\* Caller c has read and not written, caller d has read the same state of
\* the same record and has written it since: the record is as d left it.
ReadBeforeEitherWrote(c, d) ==
    /\ ~NotCalling(c)
    /\ Finished(d)
    /\ inflight[d][1].pc = "returned"
    /\ inflight[d][1].phone = inflight[c][1].phone
    /\ inflight[d][1].subject = inflight[c][1].subject
    /\ inflight[d][1].row = inflight[c][1].row
    /\ \A r \in SelectProgress(inflight[c][1].phone, inflight[c][1].subject) :
          /\ r.attempted = IF inflight[d][1].row = None THEN 1
                           ELSE inflight[d][1].row[1].attempted + 1
          /\ r.correct = NewCorrect(IF inflight[d][1].row = None THEN 0
                                    ELSE inflight[d][1].row[1].correct,
                                    inflight[d][1].correct)

\* C12: when two calls for the same phone and subject both read the record
\* before either writes, the second write loses an update: attempted, and
\* correct, end 1 above the values read, not 2; and when both read before
\* the record exists, the second INSERT fails on the primary key and the
\* record stays as the first call created it.
C12_UnlockedReadModifyWrite ==
    [][\A c, d \in Callers :
         (c # d /\ ReadBeforeEitherWrote(c, d) /\ Finished(c)') =>
            LET my == inflight[c][1]
                stored == SelectProgress(my.phone, my.subject)' IN
              IF my.row # None
              THEN /\ inflight'[c][1].pc = "returned"
                   /\ \A r \in stored :
                        /\ r.attempted = my.row[1].attempted + 1
                        /\ r.correct = NewCorrect(my.row[1].correct, my.correct)
              ELSE /\ inflight'[c][1].pc = "raised"
                   /\ progress' = progress]_vars

\* Both races have happened for one record: one caller's INSERT has failed,
\* and two callers that read the same existing record have both written it,
\* both with a correct answer, leaving it 1 above what they read.
C12_Witness ==
    \E c, d, e \in Callers :
       /\ c # d /\ c # e /\ d # e
       /\ Finished(c) /\ Finished(d) /\ Finished(e)
       /\ inflight[e][1].pc = "raised"
       /\ inflight[c][1].pc = "returned" /\ inflight[d][1].pc = "returned"
       /\ inflight[c][1].row # None
       /\ inflight[c][1].row = inflight[d][1].row
       /\ inflight[c][1].subject = inflight[d][1].subject
       /\ inflight[c][1].subject = inflight[e][1].subject
       /\ inflight[c][1].correct /\ inflight[d][1].correct
       /\ \A r \in SelectProgress(inflight[c][1].phone, inflight[c][1].subject) :
             /\ r.attempted = inflight[c][1].row[1].attempted + 1
             /\ r.correct = inflight[c][1].row[1].correct + 1

====
